---- MODULE Spec2Model ----
(***************************************************************************)
(* A model of the channel-backed fake of the grocery list tutorial:       *)
(* FakeClient (src/note_test.go) exchanging call and response values with *)
(* the assertion routines over one unbuffered Go channel, and the         *)
(* GroceryList that calls it.                                              *)
(*                                                                         *)
(* Go semantics of the channel that the model keeps:                       *)
(*   - an unbuffered send completes only together with a receive of        *)
(*     another goroutine (one atomic handoff);                             *)
(*   - a send on a closed channel panics, also when the sender was already *)
(*     waiting when the channel was closed;                                *)
(*   - a receive on a closed channel yields the zero value and ok = false; *)
(*   - close of a closed channel panics;                                   *)
(*   - x.(T) in its one-value form panics when x does not hold a T, the    *)
(*     nil interface included;                                             *)
(*   - a panic that nothing recovers ends the whole process;               *)
(*   - t.Error records a failure and goes on, t.Fatal records a failure    *)
(*     and ends the calling goroutine (runtime.Goexit).                    *)
(***************************************************************************)
EXTENDS Naturals, Sequences, FiniteSets

\* Bounds of the model.
MaxOps == 3
MaxPairs == 2

\* The goroutines. "driver" runs the test function (the GroceryList calls),
\* "verifier" the goroutine of assertions, "driver2" a second caller of the
\* same fake.
Threads == {"driver", "driver2", "verifier"}
Drivers == {"driver", "driver2"}
Verifiers == {"verifier"}

Texts == {"apples", "pears"}
Errs == {"nil", "boom"}

\* A *Note: the address tells the allocation, Text the struct's field.
Note(addr, text) == [addr |-> addr, Text |-> text]
NilNote == [addr |-> "nil", Text |-> ""]

RECURSIVE SeqsUpTo(_, _)
SeqsUpTo(S, n) ==
    IF n = 0 THEN {<<>>}
    ELSE LET shorter == SeqsUpTo(S, n - 1)
         IN shorter \cup {Append(s, x) : s \in {q \in shorter : Len(q) = n - 1}, x \in S}

\* The []*Note values a test hands to AssertAll.
NoteSeqs ==
    {<<>>, <<Note("test", "apples")>>, <<Note("test", "apples"), Note("test", "pears")>>}

\* A value on the channel (Call is interface{}): the dynamic type and the
\* fields of the struct it points to.
Msg(kind, note, notes, err) == [kind |-> kind, note |-> note, notes |-> notes, err |-> err]
NoMsg == Msg("none", NilNote, <<>>, "nil")
createCall(n) == Msg("createCall", n, <<>>, "nil")
createResp(err) == Msg("createResp", NilNote, <<>>, err)
allCall == Msg("allCall", NilNote, <<>>, "nil")
allResp(notes, err) == Msg("allResp", NilNote, notes, err)
\* What a receive on a closed channel yields: the nil interface.
ZeroValue == Msg("nil", NilNote, <<>>, "nil")

CallKinds == {"createCall", "allCall"}
RespKinds == {"createResp", "allResp"}

\* An invocation of a method of GroceryList or FakeClient with its arguments.
Op(op, note, notes, err) == [op |-> op, note |-> note, notes |-> notes, err |-> err]
NoOp == Op("none", NilNote, <<>>, "nil")
OpAddItem(text) == Op("AddItem", Note("list", text), <<>>, "nil")
OpItems == Op("Items", NilNote, <<>>, "nil")
OpAssertCreate(text, err) == Op("AssertCreate", Note("test", text), <<>>, err)
OpAssertAll(notes, err) == Op("AssertAll", NilNote, notes, err)
OpClose == Op("Close", NilNote, <<>>, "nil")
OpAssertDone == Op("AssertDone", NilNote, <<>>, "nil")

NoPanic == [kind |-> "none", by |-> "none"]
Panic(kind, t) == [kind |-> kind, by |-> t]

VARIABLES
    active,     \* the goroutines of this run
    scripted,   \* whether the goroutines follow a fixed test body
    script,     \* the operations each goroutine has still to invoke, if scripted
    pc,         \* where each goroutine stands
    cur,        \* the operation each goroutine is in
    in,         \* the value and ok flag a goroutine's receive has yielded
    closed,     \* whether c.Calls is closed
    panic,      \* the panic that ended the process, if any
    errors,     \* failures reported through t.Error
    fatals,     \* failures reported through t.Fatal
    hist,       \* the operations each goroutine has invoked, in order
    rets,       \* what the GroceryList calls of each goroutine have returned
    cnt         \* completed channel operations, by kind, and the values each
                \* goroutine has sent and received, in order

vars == <<active, scripted, script, pc, cur, in, closed, panic, errors, fatals, hist, rets, cnt>>

\* ---------------------------------------------------------------- helpers

DriverOps == {OpAddItem(x) : x \in Texts} \cup {OpItems, OpAssertDone}
VerifierOps ==
    {OpAssertCreate(x, e) : x \in Texts, e \in Errs}
        \cup {OpAssertAll(ns, e) : ns \in NoteSeqs, e \in Errs}
        \cup {OpClose, OpAssertDone}
OpsOf(t) == IF t \in Drivers THEN DriverOps ELSE VerifierOps

\* Whether goroutine t may invoke o now: the next statement of its test body
\* if it follows one, any operation of its role otherwise (at most MaxOps).
MayInvoke(t, o) ==
    /\ t \in active
    /\ panic = NoPanic
    /\ pc[t] = "idle"
    /\ IF scripted
       THEN script[t] # <<>> /\ o = Head(script[t])
       ELSE Len(hist[t]) < MaxOps /\ o \in OpsOf(t)

\* Bookkeeping of an invocation.
Invoked(t, o) ==
    /\ hist' = [hist EXCEPT ![t] = Append(@, o)]
    /\ script' = [script EXCEPT ![t] = IF scripted THEN Tail(@) ELSE @]
    /\ UNCHANGED <<active, scripted>>

\* Mutant: the responses are sent without the error the assertion was given.
OutgoingDropsErr(o) ==
    CASE o.op = "AddItem" -> createCall(o.note)
      [] o.op = "Items" -> allCall
      [] o.op = "AssertCreate" -> createResp("nil")
      [] o.op = "AssertAll" -> allResp(o.notes, "nil")
      [] OTHER -> NoMsg

\* The value the send statement of the operation a goroutine is in puts on
\* the channel.
Outgoing(o) ==
    CASE o.op = "AddItem" -> createCall(o.note)
      [] o.op = "Items" -> allCall
      [] o.op = "AssertCreate" -> createResp(o.err)
      [] o.op = "AssertAll" -> allResp(o.notes, o.err)
      [] OTHER -> NoMsg

\* Mutant: an assertion sends its response again and again.
AfterSendRepeats(o) == IF o.op \in {"AddItem", "Items"} THEN "recv" ELSE "send"

\* Where a goroutine stands once its send has completed: Create and All go on
\* to receive the response, AssertCreate and AssertAll return.
AfterSend(o) == IF o.op \in {"AddItem", "Items"} THEN "recv" ELSE "idle"

\* Mutant: the comparison is left out.
NotesDifferNever(a, b) == FALSE

\* Mutant: call.note != n, the pointers are compared.
NotesDifferByPointer(a, b) == a # b

\* *call.note != *n: the Note structs are compared, not the pointers.
NotesDiffer(a, b) == a.Text # b.Text

\* Mutant: the texts are filled in from the end.
RECURSIVE TextsOfReversed(_)
TextsOfReversed(notes) ==
    IF notes = <<>> THEN <<>> ELSE TextsOfReversed(Tail(notes)) \o <<Head(notes).Text>>

\* GroceryList.Items: the texts of the notes, or nothing with the error.
RECURSIVE TextsOf(_)
TextsOf(notes) ==
    IF notes = <<>> THEN <<>> ELSE <<Head(notes).Text>> \o TextsOf(Tail(notes))

\* Mutant: Items without the early return on an error.
ItemsResultIgnoresErr(notes, err) == [items |-> TextsOf(notes), err |-> err]

ItemsResult(notes, err) ==
    IF err # "nil" THEN [items |-> <<>>, err |-> err]
    ELSE [items |-> TextsOf(notes), err |-> "nil"]

\* A returned GroceryList call as the caller sees it, with what the fake's
\* method returned to GroceryList.
Ret(op, notes, err, items, lerr) ==
    [op |-> op, notes |-> notes, err |-> err, items |-> items, lerr |-> lerr]

\* ------------------------------------------------------------------- Init

Blank(S) ==
    /\ active = S
    /\ pc = [t \in Threads |-> IF t \in S THEN "idle" ELSE "absent"]
    /\ cur = [t \in Threads |-> NoOp]
    /\ in = [t \in Threads |-> [val |-> NoMsg, ok |-> FALSE]]
    /\ closed = FALSE
    /\ panic = NoPanic
    /\ errors = 0
    /\ fatals = 0
    /\ hist = [t \in Threads |-> <<>>]
    /\ rets = [t \in Threads |-> <<>>]
    /\ cnt = [callsSent |-> 0, callsRecv |-> 0, respSent |-> 0, respRecv |-> 0,
              sent |-> [t \in Threads |-> <<>>], rcvd |-> [t \in Threads |-> <<>>]]

\* NewFakeClient, one goroutine calling the list and one asserting, each free
\* to invoke any operation of its role.
Init ==
    /\ Blank({"driver", "verifier"})
    /\ scripted = FALSE
    /\ script = [t \in Threads |-> <<>>]

\* A driver operation with the assertion that matches it.
MatchedPairs ==
    {[d |-> OpAddItem(x), a |-> OpAssertCreate(x, e)] : x \in Texts, e \in Errs}
        \cup {[d |-> OpItems, a |-> OpAssertAll(ns, e)] : ns \in NoteSeqs, e \in Errs}

\* Test bodies of the shape of TestGroceryList: the driver performs O1..On and
\* AssertDone, the goroutine the matching A1..An and Close.
InitMatched ==
    /\ Blank({"driver", "verifier"})
    /\ scripted = TRUE
    /\ \E plan \in SeqsUpTo(MatchedPairs, MaxPairs) :
          script = [t \in Threads |->
                      CASE t = "driver" ->
                             [i \in 1..Len(plan) |-> plan[i].d] \o <<OpAssertDone>>
                        [] t = "verifier" ->
                             [i \in 1..Len(plan) |-> plan[i].a] \o <<OpClose>>
                        [] OTHER -> <<>>]

\* ------------------------------------------------------------- invocations

\* list.AddItem(text): g.API.Create(&Note{Text: text}) reaches the send.
AddItem(t) ==
    \E x \in Texts :
        /\ MayInvoke(t, OpAddItem(x))
        /\ Invoked(t, OpAddItem(x))
        /\ cur' = [cur EXCEPT ![t] = OpAddItem(x)]
        /\ pc' = [pc EXCEPT ![t] = "send"]
        /\ UNCHANGED <<in, closed, panic, errors, fatals, rets, cnt>>

\* list.Items(): g.API.All() reaches the send.
Items(t) ==
    /\ MayInvoke(t, OpItems)
    /\ Invoked(t, OpItems)
    /\ cur' = [cur EXCEPT ![t] = OpItems]
    /\ pc' = [pc EXCEPT ![t] = "send"]
    /\ UNCHANGED <<in, closed, panic, errors, fatals, rets, cnt>>

\* client.AssertCreate(n, err) reaches the receive.
AssertCreate(t) ==
    \E x \in Texts, e \in Errs :
        /\ MayInvoke(t, OpAssertCreate(x, e))
        /\ Invoked(t, OpAssertCreate(x, e))
        /\ cur' = [cur EXCEPT ![t] = OpAssertCreate(x, e)]
        /\ pc' = [pc EXCEPT ![t] = "recv"]
        /\ UNCHANGED <<in, closed, panic, errors, fatals, rets, cnt>>

\* client.AssertAll(notes, err) reaches the receive.
AssertAll(t) ==
    \E ns \in NoteSeqs, e \in Errs :
        /\ MayInvoke(t, OpAssertAll(ns, e))
        /\ Invoked(t, OpAssertAll(ns, e))
        /\ cur' = [cur EXCEPT ![t] = OpAssertAll(ns, e)]
        /\ pc' = [pc EXCEPT ![t] = "recv"]
        /\ UNCHANGED <<in, closed, panic, errors, fatals, rets, cnt>>

\* client.AssertDone(t) reaches the receive.
AssertDone(t) ==
    /\ MayInvoke(t, OpAssertDone)
    /\ Invoked(t, OpAssertDone)
    /\ cur' = [cur EXCEPT ![t] = OpAssertDone]
    /\ pc' = [pc EXCEPT ![t] = "recv"]
    /\ UNCHANGED <<in, closed, panic, errors, fatals, rets, cnt>>

\* Mutant: Close with an empty body.
CloseForgets(t) ==
    /\ MayInvoke(t, OpClose)
    /\ Invoked(t, OpClose)
    /\ UNCHANGED <<pc, cur, in, closed, panic, errors, fatals, rets, cnt>>

\* client.Close(): close(c.Calls); closing a closed channel panics.
Close(t) ==
    /\ MayInvoke(t, OpClose)
    /\ Invoked(t, OpClose)
    /\ IF closed
       THEN panic' = Panic("close of closed channel", t) /\ UNCHANGED closed
       ELSE closed' = TRUE /\ UNCHANGED panic
    /\ UNCHANGED <<pc, cur, in, errors, fatals, rets, cnt>>

\* The goroutine's function returns.
Finish(t) ==
    /\ t \in active
    /\ panic = NoPanic
    /\ pc[t] = "idle"
    /\ scripted => script[t] = <<>>
    /\ pc' = [pc EXCEPT ![t] = "done"]
    /\ UNCHANGED <<active, scripted, script, cur, in, closed, panic, errors, fatals,
                   hist, rets, cnt>>

\* -------------------------------------------------------------- the channel

\* Mutant: a send on the closed channel waits like one on the open channel.
ChanSendWaitsWhenClosed(s) ==
    /\ s \in active
    /\ panic = NoPanic
    /\ pc[s] = "send"
    /\ ~closed
    /\ \E r \in active \ {s} :
          /\ pc[r] = "recv"
          /\ in' = [in EXCEPT ![r] = [val |-> Outgoing(cur[s]), ok |-> TRUE]]
          /\ pc' = [pc EXCEPT ![r] = "got", ![s] = AfterSend(cur[s])]
          /\ cur' = [cur EXCEPT ![s] = IF AfterSend(cur[s]) = "idle" THEN NoOp ELSE @]
    /\ UNCHANGED <<active, scripted, script, closed, panic, errors, fatals, hist, rets, cnt>>

\* Mutant: make(chan Call, 1). A send completes with no receiver; the value
\* of Create and All comes back to the receive that follows in the same
\* goroutine.
ChanSendBuffered(s) ==
    /\ s \in active
    /\ panic = NoPanic
    /\ pc[s] = "send"
    /\ IF closed
       THEN /\ panic' = Panic("send on closed channel", s)
            /\ UNCHANGED <<pc, cur, in, cnt>>
       ELSE LET v == Outgoing(cur[s])
                back == AfterSend(cur[s]) = "recv"
            IN /\ in' = [in EXCEPT ![s] = IF back THEN [val |-> v, ok |-> TRUE] ELSE @]
               /\ pc' = [pc EXCEPT ![s] = IF back THEN "got" ELSE "idle"]
               /\ cur' = [cur EXCEPT ![s] = IF back THEN @ ELSE NoOp]
               /\ cnt' = [cnt EXCEPT !.sent[s] = Append(@, v),
                                     !.rcvd[s] = IF back THEN Append(@, v) ELSE @]
               /\ UNCHANGED panic
    /\ UNCHANGED <<active, scripted, script, closed, errors, fatals, hist, rets>>

\* c.Calls <- v by goroutine s. On the open channel the send completes
\* together with the receive of a goroutine waiting in <-c.Calls; on the
\* closed channel it panics.
ChanSend(s) ==
    /\ s \in active
    /\ panic = NoPanic
    /\ pc[s] = "send"
    /\ IF closed
       THEN /\ panic' = Panic("send on closed channel", s)
            /\ UNCHANGED <<pc, cur, in, cnt>>
       ELSE \E r \in active \ {s} :
               /\ pc[r] = "recv"
               /\ in' = [in EXCEPT ![r] = [val |-> Outgoing(cur[s]), ok |-> TRUE]]
               /\ pc' = [pc EXCEPT ![r] = "got", ![s] = AfterSend(cur[s])]
               /\ cur' = [cur EXCEPT ![s] = IF AfterSend(cur[s]) = "idle" THEN NoOp ELSE @]
               /\ cnt' = LET k == Outgoing(cur[s]).kind
                         IN [callsSent |-> cnt.callsSent + (IF k \in CallKinds THEN 1 ELSE 0),
                             callsRecv |-> cnt.callsRecv
                                 + (IF k \in CallKinds /\ r \in Verifiers THEN 1 ELSE 0),
                             respSent |-> cnt.respSent + (IF k \in RespKinds THEN 1 ELSE 0),
                             respRecv |-> cnt.respRecv
                                 + (IF k \in RespKinds /\ r \in Drivers THEN 1 ELSE 0),
                             sent |-> [cnt.sent EXCEPT ![s] = Append(@, Outgoing(cur[s]))],
                             rcvd |-> [cnt.rcvd EXCEPT ![r] = Append(@, Outgoing(cur[s]))]]
               /\ UNCHANGED panic
    /\ UNCHANGED <<active, scripted, script, closed, errors, fatals, hist, rets>>

\* Mutant: the receive does not wait on the open channel (a select with a
\* default branch) and yields the zero value.
ChanRecvNeverWaits(r) ==
    /\ r \in active
    /\ panic = NoPanic
    /\ pc[r] = "recv"
    /\ in' = [in EXCEPT ![r] = [val |-> ZeroValue, ok |-> FALSE]]
    /\ pc' = [pc EXCEPT ![r] = "got"]
    /\ UNCHANGED <<active, scripted, script, cur, closed, panic, errors, fatals,
                   hist, rets, cnt>>

\* <-c.Calls by goroutine r on the closed channel: the zero value, ok false.
ChanRecvClosed(r) ==
    /\ r \in active
    /\ panic = NoPanic
    /\ pc[r] = "recv"
    /\ closed
    /\ in' = [in EXCEPT ![r] = [val |-> ZeroValue, ok |-> FALSE]]
    /\ pc' = [pc EXCEPT ![r] = "got"]
    /\ cnt' = [cnt EXCEPT !.rcvd[r] = Append(@, ZeroValue)]
    /\ UNCHANGED <<active, scripted, script, cur, closed, panic, errors, fatals,
                   hist, rets>>

\* ------------------------------------------------- after the receive

AtGot(t, op) ==
    /\ t \in active
    /\ panic = NoPanic
    /\ pc[t] = "got"
    /\ cur[t].op = op

Returns(t) ==
    /\ pc' = [pc EXCEPT ![t] = "idle"]
    /\ cur' = [cur EXCEPT ![t] = NoOp]
    /\ in' = [in EXCEPT ![t] = [val |-> NoMsg, ok |-> FALSE]]

TypePanics(t) ==
    /\ panic' = Panic("interface conversion", t)
    /\ UNCHANGED <<pc, cur, in, errors, fatals, rets>>

\* Mutant: a value that is no *createResp is taken for a response with the
\* nil error.
CreateReturnLenient(t) ==
    /\ AtGot(t, "AddItem")
    /\ Returns(t)
    /\ rets' = [rets EXCEPT ![t] =
                  LET e == IF in[t].val.kind = "createResp" THEN in[t].val.err ELSE "nil"
                  IN Append(@, Ret("AddItem", <<>>, e, <<>>, e))]
    /\ UNCHANGED <<panic, errors, fatals>>
    /\ UNCHANGED <<active, scripted, script, closed, hist, cnt>>

\* Create: (<-c.Calls).(*createResp).err, which AddItem returns.
CreateReturn(t) ==
    /\ AtGot(t, "AddItem")
    /\ IF in[t].val.kind = "createResp"
       THEN /\ Returns(t)
            /\ rets' = [rets EXCEPT ![t] =
                          Append(@, Ret("AddItem", <<>>, in[t].val.err, <<>>, in[t].val.err))]
            /\ UNCHANGED <<panic, errors, fatals>>
       ELSE TypePanics(t)
    /\ UNCHANGED <<active, scripted, script, closed, hist, cnt>>

\* All: resp := (<-c.Calls).(*allResp); return resp.notes, resp.err, which
\* Items turns into the texts.
AllReturn(t) ==
    /\ AtGot(t, "Items")
    /\ IF in[t].val.kind = "allResp"
       THEN /\ Returns(t)
            /\ rets' = [rets EXCEPT ![t] =
                          LET m == in[t].val
                              r == ItemsResult(m.notes, m.err)
                          IN Append(@, Ret("Items", m.notes, m.err, r.items, r.err))]
            /\ UNCHANGED <<panic, errors, fatals>>
       ELSE TypePanics(t)
    /\ UNCHANGED <<active, scripted, script, closed, hist, cnt>>

\* Mutant: AssertCreate returns without sending the response.
AssertCreateCheckNoResponse(t) ==
    /\ AtGot(t, "AssertCreate")
    /\ IF in[t].val.kind = "createCall"
       THEN /\ errors' = errors + (IF NotesDiffer(in[t].val.note, cur[t].note) THEN 1 ELSE 0)
            /\ Returns(t)
            /\ UNCHANGED <<panic, fatals, rets>>
       ELSE TypePanics(t)
    /\ UNCHANGED <<active, scripted, script, closed, hist, cnt>>

\* AssertCreate: call := (<-c.Calls).(*createCall); the notes are compared,
\* t.Error on a difference; then the response is to be sent.
AssertCreateCheck(t) ==
    /\ AtGot(t, "AssertCreate")
    /\ IF in[t].val.kind = "createCall"
       THEN /\ errors' = errors + (IF NotesDiffer(in[t].val.note, cur[t].note) THEN 1 ELSE 0)
            /\ pc' = [pc EXCEPT ![t] = "send"]
            /\ in' = [in EXCEPT ![t] = [val |-> NoMsg, ok |-> FALSE]]
            /\ UNCHANGED <<cur, panic, fatals, rets>>
       ELSE TypePanics(t)
    /\ UNCHANGED <<active, scripted, script, closed, hist, cnt>>

\* Mutant: call, _ := (<-c.Calls).(*allCall), so that another value gives a
\* nil call, "No all call" is reported and the response is sent all the same.
AssertAllCheckLenient(t) ==
    /\ AtGot(t, "AssertAll")
    /\ errors' = errors + (IF in[t].val.kind = "allCall" THEN 0 ELSE 1)
    /\ pc' = [pc EXCEPT ![t] = "send"]
    /\ in' = [in EXCEPT ![t] = [val |-> NoMsg, ok |-> FALSE]]
    /\ UNCHANGED <<cur, panic, fatals, rets>>
    /\ UNCHANGED <<active, scripted, script, closed, hist, cnt>>

\* AssertAll: call := (<-c.Calls).(*allCall); a value that passed the type
\* assertion is a non-nil pointer, so "No all call" is not reported; then the
\* response is to be sent.
AssertAllCheck(t) ==
    /\ AtGot(t, "AssertAll")
    /\ IF in[t].val.kind = "allCall"
       THEN /\ pc' = [pc EXCEPT ![t] = "send"]
            /\ in' = [in EXCEPT ![t] = [val |-> NoMsg, ok |-> FALSE]]
            /\ UNCHANGED <<cur, panic, errors, fatals, rets>>
       ELSE TypePanics(t)
    /\ UNCHANGED <<active, scripted, script, closed, hist, cnt>>

\* Mutant: the test of more is inverted.
AssertDoneCheckInverted(t) ==
    /\ AtGot(t, "AssertDone")
    /\ IF ~in[t].ok
       THEN /\ fatals' = fatals + 1
            /\ pc' = [pc EXCEPT ![t] = "exited"]
            /\ cur' = [cur EXCEPT ![t] = NoOp]
            /\ in' = [in EXCEPT ![t] = [val |-> NoMsg, ok |-> FALSE]]
       ELSE /\ Returns(t)
            /\ UNCHANGED fatals
    /\ UNCHANGED <<active, scripted, script, closed, panic, errors, hist, rets, cnt>>

\* Mutant: t.Error in the place of t.Fatal, AssertDone returns after it.
AssertDoneCheckNotFatal(t) ==
    /\ AtGot(t, "AssertDone")
    /\ errors' = errors + (IF in[t].ok THEN 1 ELSE 0)
    /\ Returns(t)
    /\ UNCHANGED <<active, scripted, script, closed, panic, fatals, hist, rets, cnt>>

\* AssertDone: if _, more := <-c.Calls; more { t.Fatal(...) }. t.Fatal ends
\* the goroutine.
AssertDoneCheck(t) ==
    /\ AtGot(t, "AssertDone")
    /\ IF in[t].ok
       THEN /\ fatals' = fatals + 1
            /\ pc' = [pc EXCEPT ![t] = "exited"]
            /\ cur' = [cur EXCEPT ![t] = NoOp]
            /\ in' = [in EXCEPT ![t] = [val |-> NoMsg, ok |-> FALSE]]
       ELSE /\ Returns(t)
            /\ UNCHANGED fatals
    /\ UNCHANGED <<active, scripted, script, closed, panic, errors, hist, rets, cnt>>

\* ------------------------------------------------------------------- Next

Next ==
    \E t \in Threads :
        \/ AddItem(t)
        \/ Items(t)
        \/ AssertCreate(t)
        \/ AssertAll(t)
        \/ AssertDone(t)
        \/ Close(t)
        \/ Finish(t)
        \/ ChanSend(t)
        \/ ChanRecvClosed(t)
        \/ CreateReturn(t)
        \/ AllReturn(t)
        \/ AssertCreateCheck(t)
        \/ AssertAllCheck(t)
        \/ AssertDoneCheck(t)

Spec == Init /\ [][Next]_vars

\* The driver operations of a plan that are given to goroutine d, in order.
RECURSIVE CallsFor(_, _, _)
CallsFor(plan, who, d) ==
    IF plan = <<>> THEN <<>>
    ELSE (IF Head(who) = d THEN <<Head(plan).d>> ELSE <<>>)
            \o CallsFor(Tail(plan), Tail(who), d)

\* The pairs of TestGroceryList's values, each with either error.
TestPairs ==
    {[d |-> OpAddItem("apples"), a |-> OpAssertCreate("apples", e)] : e \in Errs}
        \cup {[d |-> OpItems, a |-> OpAssertAll(<<Note("test", "apples")>>, e)] : e \in Errs}

\* Two goroutines calling the list on the same fake, and one asserting: the
\* calls O1..On are divided between the two callers, the verifier issues the
\* matching A1..An and Close; the test goroutine ends with AssertDone, the
\* second caller with or without it.
InitConcurrent ==
    /\ Blank({"driver", "driver2", "verifier"})
    /\ scripted = TRUE
    /\ \E plan \in SeqsUpTo(TestPairs, MaxPairs) :
       \E who \in [1..Len(plan) -> Drivers] :
       \E last \in {<<>>, <<OpAssertDone>>} :
          script = [t \in Threads |->
                      CASE t = "driver" -> CallsFor(plan, who, t) \o <<OpAssertDone>>
                        [] t = "driver2" -> CallsFor(plan, who, t) \o last
                        [] t = "verifier" ->
                             [i \in 1..Len(plan) |-> plan[i].a] \o <<OpClose>>]

SpecConcurrent == InitConcurrent /\ [][Next]_vars

\* The Go scheduler runs every goroutine that can take a step.
SpecMatched == InitMatched /\ [][Next]_vars /\ WF_vars(Next)

\* ------------------------------------------------------ terms of the claims

IsCall(o) == o.op \in {"AddItem", "Items"}
IsAssertion(o) == o.op \in {"AssertCreate", "AssertAll"}

\* The Create and All calls a goroutine has made through GroceryList, and the
\* assertions the verifier has issued, in order.
CallsOf(t) == SelectSeq(hist[t], IsCall)
Asserts == SelectSeq(hist["verifier"], IsAssertion)

\* The assertion answers the call: same variant.
SameVariant(c, a) ==
    \/ c.op = "AddItem" /\ a.op = "AssertCreate"
    \/ c.op = "Items" /\ a.op = "AssertAll"

AllDone == \A t \in active : pc[t] = "done"
NoFailure == panic = NoPanic /\ errors = 0 /\ fatals = 0

\* -------------------------------------------------------------------- C1
\* C1: with one driver and one verifier, the i-th call that has returned to
\* the driver returned exactly what the i-th assertion was given: Create the
\* error of the i-th AssertCreate, All the notes and the error of the i-th
\* AssertAll; no call returns without an assertion that supplied its value.
C1_ReturnsWhatWasSupplied ==
    LET r == rets["driver"]
        c == CallsOf("driver")
    IN /\ Len(r) <= Len(Asserts)
       /\ Len(r) <= Len(c)
       /\ \A i \in 1..Len(r) :
             /\ SameVariant(c[i], Asserts[i])
             /\ r[i].op = c[i].op
             /\ r[i].err = Asserts[i].err
             /\ r[i].notes = Asserts[i].notes

\* Two calls have returned, a Create with an error and an All with a note.
C1_Witness ==
    /\ Len(rets["driver"]) = 2
    /\ rets["driver"][1].op = "AddItem" /\ rets["driver"][1].err = "boom"
    /\ rets["driver"][2].op = "Items" /\ rets["driver"][2].notes # <<>>

\* -------------------------------------------------------------------- C2
\* C2: a matched run (the driver performs O1..On and AssertDone, the verifier
\* the matching A1..An and Close) terminates under fair scheduling with both
\* goroutines finished, and no panic and no test failure ever occurs in it.
C2_MatchedRunTerminates == <>AllDone /\ []NoFailure

\* The run of TestGroceryList's shape has ended: two round trips, the channel
\* closed, both goroutines returned.
C2_Witness ==
    /\ scripted
    /\ AllDone
    /\ closed
    /\ Len(rets["driver"]) = 2
    /\ hist["driver"][3] = OpAssertDone

\* -------------------------------------------------------------------- C3
\* The driver has performed calls and then AssertDone, the verifier
\* assertions and then Close.
TestShaped ==
    LET d == hist["driver"]
        v == hist["verifier"]
    IN /\ d # <<>> /\ d = CallsOf("driver") \o <<OpAssertDone>>
       /\ v # <<>> /\ v = Asserts \o <<OpClose>>

\* The two sequences agree in length, in the variant at every position and
\* in the item of every Create.
Agree ==
    LET c == CallsOf("driver")
    IN /\ Len(c) = Len(Asserts)
       /\ \A i \in 1..Len(c) :
             /\ SameVariant(c[i], Asserts[i])
             /\ c[i].op = "AddItem" => c[i].note.Text = Asserts[i].note.Text

\* C3: when the driver's calls (then AssertDone) and the verifier's
\* assertions (then Close) differ in length, in a variant or in a Create
\* item, no state has both goroutines finished without a reported failure.
C3_NoSilentDivergence == (TestShaped /\ AllDone /\ NoFailure) => Agree

\* A run whose sequences differ has ended, with the difference reported.
C3_Witness == TestShaped /\ AllDone /\ ~Agree /\ errors > 0

\* -------------------------------------------------------------------- C4
\* C4: calls returned <= responses sent <= calls the verifier received <=
\* calls the driver sent, each next to the other by at most one; a call
\* returns only if an assertion was issued for it.
C4_RendezvousAccounting ==
    LET returned == Len(rets["driver"])
    IN /\ returned <= cnt.respSent /\ cnt.respSent <= returned + 1
       /\ cnt.respSent <= cnt.callsRecv /\ cnt.callsRecv <= cnt.respSent + 1
       /\ cnt.callsRecv <= cnt.callsSent /\ cnt.callsSent <= cnt.callsRecv + 1
       /\ returned <= Len(Asserts)
       /\ cnt.callsSent <= Len(CallsOf("driver"))

\* The counts are apart: a second call is received, its response not sent.
C4_Witness ==
    /\ cnt.callsRecv = 2
    /\ cnt.respSent = 1
    /\ Len(rets["driver"]) = 1

\* -------------------------------------------------------------------- C5
\* The assertions whose comparison has been made.
Compared ==
    Len(Asserts) - (IF pc["verifier"] \in {"recv", "got"} /\ IsAssertion(cur["verifier"])
                    THEN 1 ELSE 0)

\* The assertions that have sent their response.
Answered ==
    Len(Asserts) - (IF IsAssertion(cur["verifier"]) THEN 1 ELSE 0)

\* C5: an AssertCreate paired with a Create reports one non-fatal failure if
\* the texts differ and none if they are equal, whatever the pointers; either
\* way it goes on to send its response and Create returns the error it was
\* given.
C5_MismatchReportedOnce ==
    LET c == CallsOf("driver")
        r == rets["driver"]
    IN /\ errors = Cardinality({i \in 1..Compared :
                        /\ Asserts[i].op = "AssertCreate"
                        /\ c[i].note.Text # Asserts[i].note.Text})
       /\ \A i \in 1..Answered :
             Asserts[i].op = "AssertCreate" =>
                \/ Len(r) >= i /\ r[i].op = "AddItem" /\ r[i].err = Asserts[i].err
                \/ /\ Len(r) = i - 1
                   /\ pc["driver"] = "got"
                   /\ in["driver"] = [val |-> createResp(Asserts[i].err), ok |-> TRUE]
       /\ (pc["verifier"] = "send" /\ panic = NoPanic) =>
             /\ ~closed
             /\ pc["driver"] = "recv"
             /\ ENABLED ChanSend("verifier")

\* A Create of one text met an AssertCreate of another: one failure is
\* reported and the Create has returned the error of the assertion.
C5_Witness ==
    /\ errors = 1
    /\ Len(rets["driver"]) = 1
    /\ rets["driver"][1].err = "boom"
    /\ Asserts[1].op = "AssertCreate"
    /\ CallsOf("driver")[1].note.Text # Asserts[1].note.Text

\* -------------------------------------------------------------------- C6
\* An assertion of goroutine t has received the call of the other variant.
WrongVariant(t) ==
    /\ pc[t] = "got"
    /\ \/ cur[t].op = "AssertAll" /\ in[t].val.kind = "createCall"
       \/ cur[t].op = "AssertCreate" /\ in[t].val.kind = "allCall"

\* C6: an assertion that has received a call of the other variant ends in
\* the fatal type error and nothing else: no response is sent, no failure of
\* another kind is reported, the assertion does not return, no call of the
\* driver returns, and nothing runs after the error.
C6_WrongVariantIsFatal ==
    /\ [][\A t \in Verifiers :
            WrongVariant(t) =>
               /\ panic' = Panic("interface conversion", t)
               /\ pc' = pc /\ cur' = cur
               /\ rets' = rets /\ cnt' = cnt /\ errors' = errors /\ fatals' = fatals]_vars
    /\ [][panic # NoPanic => UNCHANGED vars]_vars

\* AssertAll met a Create: the process has ended in the type error.
C6_Witness ==
    /\ panic = Panic("interface conversion", "verifier")
    /\ cur["verifier"].op = "AssertAll"
    /\ in["verifier"].val.kind = "createCall"
    /\ pc["driver"] = "recv"

\* -------------------------------------------------------------------- C7
\* Goroutine t is in AssertDone, no send is waiting.
InAssertDone(t) == cur[t].op = "AssertDone" /\ panic = NoPanic
NoSender == \A s \in active : pc[s] # "send"

\* C7: an AssertDone that finds the channel closed and no send waiting does
\* not wait (its receive can complete at once) and returns without a
\* failure, after any number of round trips.
C7_AssertDoneAfterClose ==
    /\ [](\A t \in active :
            (InAssertDone(t) /\ pc[t] = "recv" /\ closed) => ENABLED ChanRecvClosed(t))
    /\ [][\A t \in active :
            (InAssertDone(t) /\ pc[t] = "recv" /\ closed /\ NoSender /\ pc'[t] # pc[t]) =>
               /\ pc'[t] = "got" /\ ~in'[t].ok
               /\ fatals' = fatals /\ errors' = errors /\ panic' = NoPanic]_vars
    /\ [][\A t \in active :
            (InAssertDone(t) /\ pc[t] = "got" /\ ~in[t].ok /\ pc'[t] # pc[t]) =>
               /\ pc'[t] = "idle"
               /\ fatals' = fatals /\ errors' = errors /\ panic' = NoPanic]_vars

\* After two round trips and Close, AssertDone has returned to the driver.
C7_Witness ==
    /\ hist["driver"] = <<OpAddItem("apples"), OpItems, OpAssertDone>>
    /\ pc["driver"] = "idle"
    /\ closed
    /\ Len(rets["driver"]) = 2
    /\ NoFailure

\* -------------------------------------------------------------------- C8
\* C8: an AssertDone of the verifier that waits while the driver waits in the
\* send of a call, the channel open, receives that call, reports the fatal
\* failure and ends its goroutine; it does not return.
C8_AssertDoneFindsPendingCall ==
    /\ [](\A t \in Verifiers :
            (InAssertDone(t) /\ pc[t] = "recv" /\ ~closed /\ pc["driver"] = "send") =>
               ENABLED ChanSend("driver"))
    /\ [][\A t \in Verifiers :
            (InAssertDone(t) /\ pc[t] = "recv" /\ ~closed /\ pc["driver"] = "send") =>
               /\ pc'[t] = "got"
               /\ in'[t] = [val |-> Outgoing(cur["driver"]), ok |-> TRUE]
               /\ fatals' = fatals]_vars
    /\ [][\A t \in Verifiers :
            (InAssertDone(t) /\ pc[t] = "got" /\ in[t].ok) =>
               /\ pc'[t] = "exited"
               /\ fatals' = fatals + 1
               /\ panic' = NoPanic]_vars

\* The verifier's AssertDone took the driver's call and failed the test; the
\* driver still waits for a response.
C8_Witness ==
    /\ pc["verifier"] = "exited"
    /\ fatals = 1
    /\ pc["driver"] = "recv"
    /\ hist["verifier"][Len(hist["verifier"])] = OpAssertDone

\* -------------------------------------------------------------------- C9
\* AssertDone of goroutine t waits in its receive on the open channel.
WaitsOnOpen(t) == InAssertDone(t) /\ pc[t] = "recv" /\ ~closed

\* No step of the program moves goroutine t.
Blocked(t) == ~ENABLED (Next /\ pc'[t] # pc[t])

\* C9 as stated: an AssertDone invoked on the open channel reports the fatal
\* failure rather than waiting, also when no call is pending: its receive
\* can always complete.
C9_Original == \A t \in active : WaitsOnOpen(t) => ~Blocked(t)

\* C9 as amended: AssertDone reports the fatal failure exactly when its
\* receive yields a value, which needs another goroutine in a send; on the
\* open channel with no send waiting it is blocked and reports nothing; it
\* returns without a failure only when the channel is closed.
C9_Amended ==
    /\ [](\A t \in active :
            /\ (WaitsOnOpen(t) /\ NoSender) => Blocked(t)
            /\ (InAssertDone(t) /\ pc[t] = "got" /\ ~in[t].ok) => closed
            /\ (InAssertDone(t) /\ pc[t] = "got") => ENABLED AssertDoneCheck(t))
    /\ [][\A t \in active :
            (InAssertDone(t) /\ pc[t] = "got" /\ pc'[t] # pc[t]) =>
               IF in[t].ok
               THEN pc'[t] = "exited" /\ fatals' = fatals + 1
               ELSE pc'[t] = "idle" /\ fatals' = fatals]_vars

\* After a round trip the driver's AssertDone waits on the open channel, the
\* verifier between two statements: nothing is reported.
C9_Witness ==
    /\ WaitsOnOpen("driver")
    /\ pc["verifier"] = "idle"
    /\ Len(rets["driver"]) = 1
    /\ NoFailure

AssertDoneReturned ==
    /\ hist["driver"] # <<>>
    /\ hist["driver"][Len(hist["driver"])] = OpAssertDone
    /\ pc["driver"] \in {"idle", "done"}

\* C11: in a matched run AssertDone returns only after Close, when the
\* verifier has issued all its assertions; an AssertDone that reaches its
\* receive before Close is blocked while the channel is open, and returns
\* once it is closed, with no failure.
C11_AssertDoneWaitsForClose ==
    /\ [](AssertDoneReturned =>
            /\ closed
            /\ script["verifier"] = <<>>
            /\ pc["verifier"] \in {"idle", "done"})
    /\ []((InAssertDone("driver") /\ pc["driver"] = "got") => (closed /\ ~in["driver"].ok))
    /\ [](WaitsOnOpen("driver") => Blocked("driver"))
    /\ (WaitsOnOpen("driver") ~> AssertDoneReturned)
    /\ [](fatals = 0)

\* After both round trips the driver waits in AssertDone; the verifier has
\* still to close.
C11_Witness ==
    /\ scripted
    /\ active = {"driver", "verifier"}
    /\ WaitsOnOpen("driver")
    /\ script["verifier"] = <<OpClose>>
    /\ Len(rets["driver"]) = 2

\* ------------------------------------------------------------------- C12
Closes(t) == Cardinality({i \in 1..Len(hist[t]) : hist[t][i] = OpClose})

\* C12: in a matched run the channel is closed once, by the verifier, when
\* the driver has received the response of every assertion; no send waits
\* or is attempted from then on, and no panic occurs.
C12_ClosedOnceAfterLastResponse ==
    /\ [](/\ Closes("driver") = 0
          /\ Closes("verifier") = (IF closed THEN 1 ELSE 0)
          /\ panic = NoPanic
          /\ closed =>
                (/\ script["verifier"] = <<>>
                 /\ cnt.respRecv = Len(Asserts)
                 /\ cnt.respRecv = Len(CallsOf("driver"))
                 /\ \A i \in 1..Len(script["driver"]) : ~IsCall(script["driver"][i])
                 /\ NoSender))
    /\ [][closed => closed']_vars
    /\ <>closed

\* The channel has been closed after two round trips, under the driver's
\* waiting AssertDone.
C12_Witness ==
    /\ scripted
    /\ active = {"driver", "verifier"}
    /\ closed
    /\ cnt.respRecv = 2
    /\ InAssertDone("driver") /\ pc["driver"] = "recv"

\* ------------------------------------------------------------------- C13
\* The receives of one goroutine obtained the values the other sent, one for
\* one and in order, and the zero value from then on.
InOrder(S, R) ==
    /\ Len(S) <= Len(R)
    /\ \A i \in 1..Len(R) : R[i] = (IF i <= Len(S) THEN S[i] ELSE ZeroValue)

\* C13: with one driver and one verifier, the i-th value a goroutine
\* receives from the channel is the i-th value the other has sent, which is
\* the call (the response) of its i-th call (assertion); every send that has
\* completed has been received, none twice; receives on the closed channel
\* come after them.
C13_FifoPairing ==
    /\ InOrder(cnt.sent["driver"], cnt.rcvd["verifier"])
    /\ InOrder(cnt.sent["verifier"], cnt.rcvd["driver"])
    /\ \A i \in 1..Len(cnt.sent["driver"]) :
          cnt.sent["driver"][i] = Outgoing(CallsOf("driver")[i])
    /\ \A i \in 1..Len(cnt.sent["verifier"]) :
          cnt.sent["verifier"][i] = Outgoing(Asserts[i])

\* Two calls and two responses have crossed, and a receive on the closed
\* channel followed.
C13_Witness ==
    /\ Len(cnt.sent["driver"]) = 2
    /\ Len(cnt.sent["verifier"]) = 2
    /\ cnt.rcvd["driver"] = <<createResp("boom"), allResp(<<Note("test", "apples")>>, "nil"),
                              ZeroValue>>

\* ------------------------------------------------------------------- C14
\* C14: an Items whose AssertAll was given (notes, nil) returns the nil error
\* and as many items as notes, the k-th the Text of the k-th note.
C14_ItemsRoundTrip ==
    \A i \in 1..Len(rets["driver"]) :
        LET r == rets["driver"][i]
            a == Asserts[i]
        IN (r.op = "Items" /\ a.op = "AssertAll" /\ a.err = "nil") =>
              /\ r.lerr = "nil"
              /\ Len(r.items) = Len(a.notes)
              /\ \A k \in 1..Len(a.notes) : r.items[k] = a.notes[k].Text

\* Items has returned the texts of two notes.
C14_Witness ==
    /\ Len(rets["driver"]) = 1
    /\ rets["driver"][1].op = "Items"
    /\ rets["driver"][1].items = <<"apples", "pears">>
    /\ rets["driver"][1].lerr = "nil"

\* ------------------------------------------------------------------- C15
\* The dynamic type of the response to a call.
ResponseKind(o) == IF o.op = "AddItem" THEN "createResp" ELSE "allResp"

\* C15: with two drivers calling the same fake and one verifier, every value
\* a driver receives from a sender while it awaits its response is the
\* response of the variant of its call, and every value an assertion
\* receives from a sender is a call.
C15_Original ==
    /\ \A d \in Drivers :
          (pc[d] = "got" /\ IsCall(cur[d]) /\ in[d].ok) =>
             in[d].val.kind = ResponseKind(cur[d])
    /\ \A v \in Verifiers :
          (pc[v] = "got" /\ IsAssertion(cur[v]) /\ in[v].ok) =>
             in[v].val.kind \in CallKinds

\* ------------------------------------------------------------------- C16
\* Driver d has sent its call and not yet returned.
AwaitsResponse(d) == IsCall(cur[d]) /\ pc[d] \in {"recv", "got"}

\* C16: when the channel is closed while a driver awaits its response, the
\* driver's receive does not wait and yields the zero value, the type
\* assertion on it panics, and the call does not return: nothing is added
\* to what the list calls of that driver have returned, and nothing runs
\* after the panic.
C16_CloseUnderWaitingCall ==
    /\ [](\A d \in Drivers :
            /\ (AwaitsResponse(d) /\ pc[d] = "recv" /\ closed /\ panic = NoPanic) =>
                  ENABLED ChanRecvClosed(d)
            /\ (AwaitsResponse(d) /\ pc[d] = "got" /\ ~in[d].ok /\ panic = NoPanic) =>
                  ENABLED (CreateReturn(d) \/ AllReturn(d)))
    /\ [][\A d \in Drivers :
            (AwaitsResponse(d) /\ pc[d] = "recv" /\ closed) =>
               /\ rets'[d] = rets[d]
               /\ pc'[d] # pc[d] => (pc'[d] = "got" /\ in'[d] = [val |-> ZeroValue, ok |-> FALSE])]_vars
    /\ [][\A d \in Drivers :
            (AwaitsResponse(d) /\ pc[d] = "got" /\ ~in[d].ok) =>
               /\ rets'[d] = rets[d]
               /\ pc'[d] = "got"
               /\ (CreateReturn(d) \/ AllReturn(d)) => panic' = Panic("interface conversion", d)]_vars
    /\ [][panic # NoPanic => UNCHANGED vars]_vars

\* The response of the driver's Create went to another goroutine's
\* AssertDone, the verifier closed, and the Create panicked on the zero value.
C16_Witness ==
    /\ panic = Panic("interface conversion", "driver")
    /\ closed
    /\ cur["driver"].op = "AddItem"
    /\ in["driver"] = [val |-> ZeroValue, ok |-> FALSE]
    /\ rets["driver"] = <<>>

\* ------------------------------------------------------------------- C17
\* C17: an AssertAll whose receive yields anything but an allCall (the zero
\* value of the closed channel included) reports the non-fatal "No all call"
\* failure and goes on to send its response.
C17_Original ==
    [][\A v \in Verifiers :
         (pc[v] = "got" /\ cur[v].op = "AssertAll" /\ in[v].val.kind # "allCall"
             /\ AssertAllCheck(v)) =>
            /\ errors' = errors + 1
            /\ panic' = NoPanic
            /\ pc'[v] = "send"]_vars

\* ------------------------------------------------------------------- C18
KindsOf(log) == {log[i].kind : i \in 1..Len(log)}

\* C18: with one driver and one verifier, every value the verifier receives
\* (in an assertion or in AssertDone) is a call or the zero value of the
\* closed channel; every value the driver receives while it awaits a
\* response is the response of the variant of its call or the zero value;
\* the driver's type assertion does not fail on a response, and the driver's
\* AssertDone receives no response.
C18_NoMessageCrossing ==
    /\ KindsOf(cnt.rcvd["verifier"]) \subseteq CallKinds \cup {"nil"}
    /\ KindsOf(cnt.rcvd["driver"]) \subseteq RespKinds \cup {"nil"}
    /\ pc["verifier"] = "got" => in["verifier"].val.kind \in CallKinds \cup {"nil"}
    /\ (pc["driver"] = "got" /\ IsCall(cur["driver"])) =>
          in["driver"].val.kind \in {ResponseKind(cur["driver"]), "nil"}
    /\ (pc["driver"] = "got" /\ cur["driver"].op = "AssertDone") =>
          in["driver"].val.kind = "nil"
    /\ panic = Panic("interface conversion", "driver") =>
          in["driver"].val.kind \notin RespKinds

\* The second response has reached the driver's All, after two calls reached
\* the verifier.
C18_Witness ==
    /\ pc["driver"] = "got"
    /\ cur["driver"].op = "Items"
    /\ in["driver"].val.kind = "allResp"
    /\ Len(cnt.rcvd["verifier"]) = 2
    /\ Len(cnt.rcvd["driver"]) = 2

\* ------------------------------------------------------------------- C19
\* C19: an Items whose AssertAll was given an error that is not nil returns
\* no items and that error, whatever the notes; an AddItem sends a Create
\* call with a note of its text and returns the error its AssertCreate was
\* given, nil or not.
C19_ErrorPassThrough ==
    \A i \in 1..Len(rets["driver"]) :
        LET r == rets["driver"][i]
            a == Asserts[i]
            c == CallsOf("driver")[i]
            m == cnt.rcvd["verifier"][i]
        IN /\ (r.op = "Items" /\ a.err # "nil") => (r.items = <<>> /\ r.lerr = a.err)
           /\ r.op = "AddItem" =>
                 /\ r.lerr = a.err
                 /\ m.kind = "createCall"
                 /\ m.note.Text = c.note.Text

\* An Items given notes and an error has returned the error and no items,
\* after an AddItem that returned nil.
C19_Witness ==
    /\ Len(rets["driver"]) = 2
    /\ rets["driver"][1].op = "AddItem" /\ rets["driver"][1].lerr = "nil"
    /\ rets["driver"][2].op = "Items"
    /\ rets["driver"][2].notes # <<>>
    /\ rets["driver"][2].items = <<>>
    /\ rets["driver"][2].lerr = "boom"

====
